---- MODULE Spec2Model ----
(***************************************************************************)
(* Model of src/src/claude_voice_mcp.py: the three MCP tools               *)
(* generate_speech, list_voices and check_status, the Kokoro backend they  *)
(* call over HTTP, and the output directory generate_speech writes to.     *)
(*                                                                         *)
(* A Python str is a sequence of one-character strings, bytes are a        *)
(* sequence of integers 0..255, a pathlib.Path is the sequence of its      *)
(* parts.  A float speed is held in tenths (1.0 is 10).  A formatted       *)
(* message is the sequence of its fragments, numbers rendered in decimal.  *)
(***************************************************************************)
EXTENDS Integers, Sequences, FiniteSets, TLC

\* The field names of the records below, numbered in the order the record
\* constructors write them.  TLC keeps the fields of a record sorted by the
\* first occurrence of their names in the module, so with this record first
\* every record of the model is built already sorted.
FieldOrder ==
    [op |-> 1, text |-> 2, model |-> 3, input |-> 4, method |-> 5, url |-> 6,
     json |-> 7, timeout |-> 8, kind |-> 9, status |-> 10, content |-> 11,
     file_path |-> 12, audio_data |-> 13, size_bytes |-> 14, error |-> 15,
     service |-> 16, base_url |-> 17, message |-> 18, voices |-> 19,
     blending_info |-> 20, note |-> 21, voice |-> 22, speed |-> 23,
     response_format |-> 24, format |-> 25, output_format |-> 26,
     text_preview |-> 27, save_to_file |-> 28, exc |-> 29, returned |-> 30,
     value |-> 31, dirs |-> 32, files |-> 33, touched |-> 34, raised |-> 35,
     ok |-> 36, errno |-> 37, path |-> 38, io |-> 39, written |-> 40,
     type |-> 41, items |-> 42, name |-> 43, gender |-> 44, language |-> 45,
     description |-> 46]

VARIABLES
    pc,      \* pc[i]: where invocation i stands
    inv,     \* inv[i]: the tool invoked and its arguments
    sent,    \* sent[i]: the outbound HTTP requests invocation i has issued
    resp,    \* resp[i]: what the awaited HTTP call produced for invocation i
    result,  \* result[i]: the dict the tool returned, or the exception it let out
    wrote,   \* wrote[i]: the paths invocation i created or modified
    dirs,    \* the directories of the filesystem
    files,   \* the regular files of the filesystem: path -> bytes
    files0   \* the regular files as they were when the server started

vars == <<pc, inv, sent, resp, result, wrote, dirs, files, files0>>

\* The number of tool invocations the host runs concurrently.
NumCalls == 2

Calls == 1..NumCalls

----------------------------------------------------------------------------
\* Strings

Letters ==
    {"a","b","c","d","e","f","g","h","i","j","k","l","m","n","o","p","q","r",
     "s","t","u","v","w","x","y","z","A","B","C","D","E","F","G","H","I","J",
     "K","L","M","N","O","P","Q","R","S","T","U","V","W","X","Y","Z"}

Digits == <<"0","1","2","3","4","5","6","7","8","9">>

\* str.isalnum() on one character, for the ASCII characters of the model.
isalnum(c) == c \in Letters \/ \E k \in 1..10 : Digits[k] = c

\* s[:n]
Take(s, n) == SubSeq(s, 1, IF Len(s) < n THEN Len(s) ELSE n)

\* s.replace(old, new) for a one-character old
RECURSIVE replace(_, _, _)
replace(s, old, new) ==
    IF s = <<>> THEN <<>>
    ELSE (IF Head(s) = old THEN new ELSE <<Head(s)>>) \o replace(Tail(s), old, new)

\* The decimal rendering of a natural number, as an f-string renders an int.
RECURSIVE Decimal(_)
Decimal(n) ==
    IF n < 10 THEN <<Digits[n + 1]>>
    ELSE Decimal(n \div 10) \o <<Digits[(n % 10) + 1]>>

\* s.split(sep): the pieces of s between the occurrences of sep.
RECURSIVE split(_, _)
split(s, sep) ==
    IF \A k \in 1..Len(s) : s[k] # sep THEN <<s>>
    ELSE LET k == CHOOSE j \in 1..Len(s) :
                      s[j] = sep /\ \A m \in 1..(j - 1) : s[m] # sep
         IN  <<SubSeq(s, 1, k - 1)>> \o split(SubSeq(s, k + 1, Len(s)), sep)

----------------------------------------------------------------------------
\* Configuration (lines 24-28), at its defaults.

KOKORO_BASE_URL == "http://localhost:8880"

TIMEOUT == 30

\* The output directory, one level below the root of the filesystem.
OUTPUT_DIR == << <<"t","t","s","_","o","u","t","p","u","t">> >>

\* The bounds the unused input schema GenerateSpeechInput puts on speed
\* (ge=0.5, le=2.0), in tenths.
SPEED_GE == 5

SPEED_LE == 20

\* GenerateSpeechInput's constraint on speed.  generate_speech takes its
\* arguments from its own signature and never builds a GenerateSpeechInput,
\* so nothing in the program evaluates this.
GenerateSpeechInput_speed_ok(speed) == SPEED_GE <= speed /\ speed <= SPEED_LE

\* text[:30] in the filename, text[:100] in the preview.
FILENAME_TEXT_CHARS == 30

PREVIEW_CHARS == 100

----------------------------------------------------------------------------
\* The filename of persist mode (lines 124-128).

\* The characters line 125 keeps: c.isalnum() or c in (" ", "_").
keep_char(c) == isalnum(c) \/ c \in {" ", "_"}

\* safe_text with the cut to 30 characters taken after the filtering.
safe_text_filter_first(text) ==
    replace(Take(SelectSeq(text, keep_char), FILENAME_TEXT_CHARS), " ", <<"_">>)

\* Lines 125-126: the kept characters of text[:30], spaces turned into "_".
safe_text(text) ==
    replace(SelectSeq(Take(text, FILENAME_TEXT_CHARS), keep_char), " ", <<"_">>)

\* Line 127: f"{safe_text}_{voice.replace('+', '_')}.{output_format}"
filename(text, voice, output_format) ==
    safe_text(text) \o <<"_">> \o replace(voice, "+", <<"_">>)
        \o <<".">> \o output_format

\* The parts pathlib keeps of a relative path string: the pieces between "/",
\* without the empty ones and the "." ones (".." is kept).
path_parts(s) ==
    SelectSeq(split(s, "/"), LAMBDA part : part # <<>> /\ part # <<".">>)

\* Line 128: OUTPUT_DIR / filename.  A right operand that starts with "/"
\* replaces the left one.
path_join(base, s) ==
    IF s # <<>> /\ s[1] = "/" THEN path_parts(s) ELSE base \o path_parts(s)

\* str(path) of an absolute path.
RECURSIVE path_str(_)
path_str(path) ==
    IF path = <<>> THEN <<>>
    ELSE <<"/">> \o Head(path) \o path_str(Tail(path))

\* Lines 141, 153: text[:100] + ("..." if len(text) > 100 else "")
text_preview(text) ==
    Take(text, PREVIEW_CHARS)
        \o (IF Len(text) > PREVIEW_CHARS THEN <<".", ".", ".">> ELSE <<>>)

----------------------------------------------------------------------------
\* The filesystem, as open(2) sees it.

parent(dir) == IF dir = <<>> THEN <<>> ELSE SubSeq(dir, 1, Len(dir) - 1)

\* The kernel's walk from directory cur along parts to the file that
\* open(path, O_WRONLY | O_CREAT | O_TRUNC) names: ".." of a directory is its
\* parent, every part but the last must be an existing directory, and the
\* last must not be one.
RECURSIVE walk(_, _, _, _)
walk(cur, parts, ds, fs) ==
    IF parts = <<>> THEN [ok |-> FALSE, errno |-> "EISDIR"]
    ELSE LET name == Head(parts)
             next == IF name = <<".", ".">> THEN parent(cur) ELSE cur \o <<name>>
         IN  IF Len(parts) = 1
             THEN IF next \in ds
                  THEN [ok |-> FALSE, errno |-> "EISDIR"]
                  ELSE [ok |-> TRUE, path |-> next]
             ELSE IF next \in ds THEN walk(next, Tail(parts), ds, fs)
             ELSE IF next \in DOMAIN fs
                  THEN [ok |-> FALSE, errno |-> "ENOTDIR"]
                  ELSE [ok |-> FALSE, errno |-> "ENOENT"]

\* Whether path lies below directory dir.
is_under(path, dir) ==
    Len(path) > Len(dir) /\ SubSeq(path, 1, Len(dir)) = dir

\* The filesystem fs with file path holding data.
with_file(fs, path, data) ==
    [p \in DOMAIN fs \cup {path} |-> IF p = path THEN data ELSE fs[p]]

\* The outcomes of the device for one write_bytes of data: the write goes
\* through, the open fails (permissions, quota), or the open truncates the
\* file and the write stops after n < len(data) bytes (disk full, I/O error).
io_outcomes(data) ==
    {[io |-> "ok", written |-> Len(data)], [io |-> "open_fails", written |-> 0]}
        \cup {[io |-> "write_fails", written |-> n] : n \in 0..(Len(data) - 1)}

\* Line 131: file_path.write_bytes(audio_data), which is
\* open(mode="wb") then write(): the file is truncated when it is opened and
\* filled afterwards.  Gives the filesystem after the call, the path touched
\* (if any) and the exception raised (if any).
write_bytes(path, data, ds, fs, io) ==
    LET at == walk(<<>>, path, ds, fs)
    IN  IF ~at.ok \/ io.io = "open_fails"
        THEN [files |-> fs, touched |-> {}, raised |-> "OSError"]
        ELSE IF io.io = "write_fails"
        THEN [files |-> with_file(fs, at.path, SubSeq(data, 1, io.written)),
              touched |-> {at.path}, raised |-> "OSError"]
        ELSE [files |-> with_file(fs, at.path, data),
              touched |-> {at.path}, raised |-> "none"]

----------------------------------------------------------------------------
\* Bytes and text.

\* The printable ASCII characters, code 32 first (codes 34, 92 and 96 by name).
ASCII ==
    <<
      " ","!","QUOTE","#","$","%","&","'","(",")","*","+",
      ",","-",".","/","0","1","2","3","4","5","6","7",
      "8","9",":",";","<","=",">","?","@","A","B","C",
      "D","E","F","G","H","I","J","K","L","M","N","O",
      "P","Q","R","S","T","U","V","W","X","Y","Z","[",
      "BACKSLASH","]","^","_","BACKTICK","a","b","c","d","e","f","g",
      "h","i","j","k","l","m","n","o","p","q","r","s",
      "t","u","v","w","x","y","z","{","|","}","~"
    >>

\* bytes.decode(): a printable ASCII byte is its character, and any other
\* byte of the model (none of them valid UTF-8 on its own) is U+FFFD.
decode(data) ==
    [k \in 1..Len(data) |->
        IF 32 <= data[k] /\ data[k] <= 126 THEN ASCII[data[k] - 31] ELSE "U+FFFD"]

\* b64_digit with the URL-safe alphabet ("-" and "_" for 62 and 63).
b64_digit_urlsafe(v) ==
    IF v < 26 THEN 65 + v
    ELSE IF v < 52 THEN 97 + (v - 26)
    ELSE IF v < 62 THEN 48 + (v - 52)
    ELSE IF v = 62 THEN 45
    ELSE 95

\* The ASCII code of the base64 digit of a 6-bit value.
b64_digit(v) ==
    IF v < 26 THEN 65 + v
    ELSE IF v < 52 THEN 97 + (v - 26)
    ELSE IF v < 62 THEN 48 + (v - 52)
    ELSE IF v = 62 THEN 43
    ELSE 47

\* Line 145: base64.b64encode(data), the bytes of the standard alphabet with
\* "=" (61) padding.
RECURSIVE b64encode(_)
b64encode(data) ==
    IF data = <<>> THEN <<>>
    ELSE IF Len(data) = 1
    THEN <<b64_digit(data[1] \div 4), b64_digit((data[1] % 4) * 16), 61, 61>>
    ELSE IF Len(data) = 2
    THEN <<b64_digit(data[1] \div 4),
           b64_digit((data[1] % 4) * 16 + data[2] \div 16),
           b64_digit((data[2] % 16) * 4), 61>>
    ELSE <<b64_digit(data[1] \div 4),
           b64_digit((data[1] % 4) * 16 + data[2] \div 16),
           b64_digit((data[2] % 16) * 4 + data[3] \div 64),
           b64_digit(data[3] % 64)>> \o b64encode(SubSeq(data, 4, Len(data)))

----------------------------------------------------------------------------
\* Exceptions.

\* The classes an exception is an instance of (httpx, json and builtins).
bases(exc) ==
    CASE exc = "HTTPStatusError" -> {"HTTPStatusError", "HTTPError", "Exception"}
      [] exc = "TimeoutException" ->
            {"TimeoutException", "TransportError", "RequestError", "HTTPError",
             "Exception"}
      [] exc = "ConnectError" ->
            {"ConnectError", "NetworkError", "TransportError", "RequestError",
             "HTTPError", "Exception"}
      [] exc = "ReadError" ->
            {"ReadError", "NetworkError", "TransportError", "RequestError",
             "HTTPError", "Exception"}
      [] exc = "JSONDecodeError" -> {"JSONDecodeError", "ValueError", "Exception"}
      [] exc = "TypeError" -> {"TypeError", "Exception"}
      [] exc = "OSError" -> {"OSError", "Exception"}
      [] exc = "CancelledError" -> {"CancelledError", "BaseException"}

\* Whether `except cls` catches exc.
catches(cls, exc) == cls \in bases(exc)

\* response.is_success, which raise_for_status() tests.
is_success(status_code) == 200 <= status_code /\ status_code <= 299

\* What `await client.post(...)` / `await client.get(...)` hands to the
\* coroutine: the exception it raises, or "none" with the response.
awaited(r) == IF r.kind = "response" THEN "none" ELSE r.kind

----------------------------------------------------------------------------
\* generate_speech (lines 79-173).

\* Lines 104-110: the request payload.
payload(a) ==
    [model |-> "kokoro", input |-> a.text, voice |-> a.voice, speed |-> a.speed,
     response_format |-> a.output_format]

\* Lines 134-142: the dict of persist mode.
persist_dict(a, file_path, audio_data) ==
    [status |-> "success", file_path |-> path_str(file_path),
     size_bytes |-> Len(audio_data), voice |-> a.voice, speed |-> a.speed,
     format |-> a.output_format, text_preview |-> text_preview(a.text)]

\* Lines 145-154: the dict of inline mode.
inline_dict(a, audio_data) ==
    [status |-> "success", audio_data |-> decode(b64encode(audio_data)),
     size_bytes |-> Len(audio_data), voice |-> a.voice, speed |-> a.speed,
     format |-> a.output_format, text_preview |-> text_preview(a.text)]

\* Lines 102-154, from the point where the awaited POST has produced r: the
\* exception the try block raises ("none": it returns value), the filesystem
\* it leaves and the paths it touched.
generate_speech_try(a, r, ds, fs, io) ==
    IF awaited(r) # "none"
    THEN [exc |-> awaited(r), value |-> <<>>, files |-> fs, touched |-> {}]
    ELSE IF ~is_success(r.status)
    THEN [exc |-> "HTTPStatusError", value |-> <<>>, files |-> fs, touched |-> {}]
    ELSE IF a.save_to_file
    THEN LET file_path ==
                 path_join(OUTPUT_DIR, filename(a.text, a.voice, a.output_format))
             w == write_bytes(file_path, r.content, ds, fs, io)
         IN  IF w.raised # "none"
             THEN [exc |-> w.raised, value |-> <<>>, files |-> w.files,
                   touched |-> w.touched]
             ELSE [exc |-> "none", value |-> persist_dict(a, file_path, r.content),
                   files |-> w.files, touched |-> w.touched]
    ELSE [exc |-> "none", value |-> inline_dict(a, r.content), files |-> fs,
          touched |-> {}]

\* str(e) of an exception that carries no response: its message, which the
\* model names by the exception's class.
exc_str(exc) == <<"message of ", exc>>

\* generate_speech_except without the `except httpx.TimeoutException` clause.
generate_speech_except_no_timeout_clause(exc, r) ==
    IF "HTTPStatusError" \in bases(exc)
    THEN [exc |-> "none",
          value |-> [status |-> "error",
                     error |-> <<"HTTP ">> \o Decimal(r.status) \o <<": ">>
                                   \o decode(r.content)]]
    ELSE IF "Exception" \in bases(exc)
    THEN [exc |-> "none", value |-> [status |-> "error", error |-> exc_str(exc)]]
    ELSE [exc |-> exc, value |-> <<>>]

\* Lines 156-173: the except clauses, first match first.  An exception none
\* of them catches leaves the coroutine.
generate_speech_except(exc, r) ==
    IF catches("HTTPStatusError", exc)
    THEN [exc |-> "none",
          value |-> [status |-> "error",
                     error |-> <<"HTTP ">> \o Decimal(r.status) \o <<": ">>
                                   \o decode(r.content)]]
    ELSE IF catches("TimeoutException", exc)
    THEN [exc |-> "none",
          value |-> [status |-> "error",
                     error |-> <<"Request timed out after ">> \o Decimal(TIMEOUT)
                                   \o <<"s">>]]
    ELSE IF catches("Exception", exc)
    THEN [exc |-> "none", value |-> [status |-> "error", error |-> exc_str(exc)]]
    ELSE [exc |-> exc, value |-> <<>>]

\* Lines 102-173: what the call ends with once the awaited POST produced r.
generate_speech_end(a, r, ds, fs, io) ==
    LET t == generate_speech_try(a, r, ds, fs, io)
        e == generate_speech_except(t.exc, r)
    IN  IF t.exc = "none" THEN t
        ELSE [exc |-> e.exc, value |-> e.value, files |-> t.files,
              touched |-> t.touched]

----------------------------------------------------------------------------
\* list_voices (lines 176-227).

\* response.json() for the bodies the model's backend sends: the Python
\* value of a JSON document, or JSONDecodeError.
response_json(content) ==
    CASE content = "[{\"name\": \"af_heart\"}]" ->
            [exc |-> "none",
             value |-> [type |-> "list", items |-> <<[name |-> "af_heart"]>>]]
      [] content = "{\"voices\": [\"af_heart\"]}" ->
            [exc |-> "none",
             value |-> [type |-> "dict", items |-> [voices |-> <<"af_heart">>]]]
      [] content = "[]" ->
            [exc |-> "none", value |-> [type |-> "list", items |-> <<>>]]
      [] content = "null" ->
            [exc |-> "none", value |-> [type |-> "NoneType", items |-> <<>>]]
      [] content = "42" ->
            [exc |-> "none", value |-> [type |-> "int", items |-> <<42>>]]
      [] OTHER -> [exc |-> "JSONDecodeError", value |-> <<>>]

\* Whether len(v) is defined: line 192 takes len(api_voices) for its log
\* message, and len() of None or of a number raises TypeError.
has_len(v) == v.type \in {"list", "dict", "str"}

blending_info ==
    "Blend voices using syntax: 'voice1(weight1)+voice2(weight2)'. Example: 'af_bella(2)+af_sky(1)' creates a voice that is 2 parts af_bella and 1 part af_sky."

\* Lines 206-216.
default_voices ==
    [type |-> "list", items |-> <<
        [name |-> "af_bella", gender |-> "female", language |-> "en",
         description |-> "Bella (American Female)"],
        [name |-> "af_sky", gender |-> "female", language |-> "en",
         description |-> "Sky (American Female)"],
        [name |-> "af_nicole", gender |-> "female", language |-> "en",
         description |-> "Nicole (American Female)"],
        [name |-> "am_adam", gender |-> "male", language |-> "en",
         description |-> "Adam (American Male)"],
        [name |-> "am_michael", gender |-> "male", language |-> "en",
         description |-> "Michael (American Male)"],
        [name |-> "bf_emma", gender |-> "female", language |-> "en",
         description |-> "Emma (British Female)"],
        [name |-> "bf_isabella", gender |-> "female", language |-> "en",
         description |-> "Isabella (British Female)"],
        [name |-> "bm_george", gender |-> "male", language |-> "en",
         description |-> "George (British Male)"],
        [name |-> "bm_lewis", gender |-> "male", language |-> "en",
         description |-> "Lewis (British Male)"]
    >>]

\* Lines 218-227: the fallback dict.
fallback_dict ==
    [status |-> "success", voices |-> default_voices,
     blending_info |-> blending_info,
     note |-> "Using default voice list (API not available)"]

\* Lines 186-201, from the point where the awaited GET has produced r: the
\* exception raised, else the dict returned, else (returned = FALSE) the end
\* of the try block reached without a return.
list_voices_try(r) ==
    IF awaited(r) # "none"
    THEN [exc |-> awaited(r), returned |-> FALSE, value |-> <<>>]
    ELSE IF r.status = 200
    THEN LET j == response_json(r.content)
         IN  IF j.exc # "none"
             THEN [exc |-> j.exc, returned |-> FALSE, value |-> <<>>]
             ELSE IF ~has_len(j.value)
             THEN [exc |-> "TypeError", returned |-> FALSE, value |-> <<>>]
             ELSE [exc |-> "none", returned |-> TRUE,
                   value |-> [status |-> "success", voices |-> j.value,
                              blending_info |-> blending_info]]
    ELSE [exc |-> "none", returned |-> FALSE, value |-> <<>>]

\* list_voices_end with `except httpx.HTTPError` in place of
\* `except Exception`.
list_voices_end_http_errors_only(r) ==
    LET t == list_voices_try(r)
    IN  IF t.exc = "none" /\ t.returned THEN [exc |-> "none", value |-> t.value]
        ELSE IF t.exc = "none" \/ catches("HTTPError", t.exc)
        THEN [exc |-> "none", value |-> fallback_dict]
        ELSE [exc |-> t.exc, value |-> <<>>]

\* Lines 186-227: what the call ends with once the awaited GET produced r.
\* `except Exception` (line 202) logs and falls through to the fallback.
list_voices_end(r) ==
    LET t == list_voices_try(r)
    IN  IF t.exc = "none" /\ t.returned THEN [exc |-> "none", value |-> t.value]
        ELSE IF t.exc = "none" \/ catches("Exception", t.exc)
        THEN [exc |-> "none", value |-> fallback_dict]
        ELSE [exc |-> t.exc, value |-> <<>>]

----------------------------------------------------------------------------
\* check_status (lines 230-268).

\* check_status_end without response.raise_for_status().
check_status_end_no_raise_for_status(r) ==
    LET exc == awaited(r)
    IN  IF exc = "none"
        THEN [exc |-> "none",
              value |-> [status |-> "success", service |-> "online",
                         base_url |-> KOKORO_BASE_URL,
                         message |-> <<"Kokoro TTS service is running and accessible">>]]
        ELSE IF catches("ConnectError", exc)
        THEN [exc |-> "none",
              value |-> [status |-> "error", service |-> "offline",
                         base_url |-> KOKORO_BASE_URL,
                         message |-> <<"Cannot connect to Kokoro TTS service.">>]]
        ELSE [exc |-> "none",
              value |-> [status |-> "error", service |-> "unknown",
                         base_url |-> KOKORO_BASE_URL,
                         message |-> <<"Error checking service: ">> \o exc_str(exc)]]

\* Lines 240-268: what the call ends with once the awaited GET produced r.
check_status_end(r) ==
    LET exc == IF awaited(r) # "none" THEN awaited(r)
               ELSE IF ~is_success(r.status) THEN "HTTPStatusError"
               ELSE "none"
    IN  IF exc = "none"
        THEN [exc |-> "none",
              value |-> [status |-> "success", service |-> "online",
                         base_url |-> KOKORO_BASE_URL,
                         message |-> <<"Kokoro TTS service is running and accessible">>]]
        ELSE IF catches("ConnectError", exc)
        THEN [exc |-> "none",
              value |-> [status |-> "error", service |-> "offline",
                         base_url |-> KOKORO_BASE_URL,
                         message |-> <<"Cannot connect to Kokoro TTS service. Ensure Docker container is running: 'systemctl --user status claude-voice-tts'">>]]
        ELSE IF catches("Exception", exc)
        THEN [exc |-> "none",
              value |-> [status |-> "error", service |-> "unknown",
                         base_url |-> KOKORO_BASE_URL,
                         message |-> <<"Error checking service: ">> \o exc_str(exc)]]
        ELSE [exc |-> exc, value |-> <<>>]

----------------------------------------------------------------------------
\* The tools as steps of the event loop.  A coroutine runs without
\* interruption from one await to the next: the awaits are the HTTP call and
\* the exit of `async with httpx.AsyncClient(...)`.

\* pc: "idle" (not invoked), "awaiting" (in client.post / client.get),
\* "closing" (the HTTP call is over, the client is being closed),
\* "returned" (a dict went back to the caller), "raised" (an exception did).

\* The request generate_speech issues (lines 113-117).
speech_request(a) ==
    [method |-> "POST", url |-> <<KOKORO_BASE_URL, "/v1/audio/speech">>,
     json |-> payload(a), timeout |-> TIMEOUT]

\* The request list_voices and check_status issue (lines 188-189, 241-243).
voices_request ==
    [method |-> "GET", url |-> <<KOKORO_BASE_URL, "/v1/audio/voices">>,
     json |-> <<>>, timeout |-> 5]

\* Lines 80-117: generate_speech up to `await client.post(...)`.  The
\* arguments arrive as the signature types them (speed: float): no bound on
\* speed is applied.  The coroutine suspends in its HTTP call.
generate_speech(i, text, voice, speed, output_format, save_to_file) ==
    LET a == [op |-> "generate_speech", text |-> text, voice |-> voice,
              speed |-> speed, output_format |-> output_format,
              save_to_file |-> save_to_file]
    IN  /\ pc[i] = "idle"
        /\ pc' = [pc EXCEPT ![i] = "awaiting"]
        /\ inv' = [inv EXCEPT ![i] = a]
        /\ sent' = [sent EXCEPT ![i] = Append(@, speech_request(a))]
        /\ UNCHANGED <<resp, result, wrote, dirs, files, files0>>

\* Lines 177-189: list_voices up to `await client.get(...)`.
list_voices(i) ==
    /\ pc[i] = "idle"
    /\ pc' = [pc EXCEPT ![i] = "awaiting"]
    /\ inv' = [inv EXCEPT ![i] = [op |-> "list_voices"]]
    /\ sent' = [sent EXCEPT ![i] = Append(@, voices_request)]
    /\ UNCHANGED <<resp, result, wrote, dirs, files, files0>>

\* Lines 231-243: check_status up to `await client.get(...)`.
check_status(i) ==
    /\ pc[i] = "idle"
    /\ pc' = [pc EXCEPT ![i] = "awaiting"]
    /\ inv' = [inv EXCEPT ![i] = [op |-> "check_status"]]
    /\ sent' = [sent EXCEPT ![i] = Append(@, voices_request)]
    /\ UNCHANGED <<resp, result, wrote, dirs, files, files0>>

\* respond with one retry: after a timeout the request is issued again.
respond_retry_once(i, r) ==
    /\ pc[i] = "awaiting"
    /\ IF r.kind = "TimeoutException" /\ Len(sent[i]) < 2
       THEN /\ sent' = [sent EXCEPT ![i] = Append(@, @[1])]
            /\ UNCHANGED <<pc, resp>>
       ELSE /\ pc' = [pc EXCEPT ![i] = "closing"]
            /\ resp' = [resp EXCEPT ![i] = r]
            /\ UNCHANGED sent
    /\ UNCHANGED <<inv, result, wrote, dirs, files, files0>>

\* The awaited HTTP call of coroutine i ends with r: a response, or the
\* exception httpx raises.  The coroutine moves on to close its client.
respond(i, r) ==
    /\ pc[i] = "awaiting"
    /\ pc' = [pc EXCEPT ![i] = "closing"]
    /\ resp' = [resp EXCEPT ![i] = r]
    /\ UNCHANGED <<inv, sent, result, wrote, dirs, files, files0>>

\* The host cancels coroutine i: CancelledError is thrown into it at the
\* await it is suspended in.
cancel(i) ==
    /\ pc[i] \in {"awaiting", "closing"}
    /\ pc' = [pc EXCEPT ![i] = "closing"]
    /\ resp' = [resp EXCEPT ![i] = [kind |-> "CancelledError", status |-> 0,
                                     content |-> <<>>]]
    /\ UNCHANGED <<inv, sent, result, wrote, dirs, files, files0>>

\* Coroutine i ends with `end`: a dict returned or an exception let out.
finish(i, end) ==
    /\ pc' = [pc EXCEPT ![i] = IF end.exc = "none" THEN "returned" ELSE "raised"]
    /\ result' = [result EXCEPT ![i] = end]
    /\ UNCHANGED <<inv, sent, resp, dirs, files0>>

\* Lines 118-173: generate_speech from the end of its HTTP call to its end,
\* the file write included.
generate_speech_return(i) ==
    /\ pc[i] = "closing"
    /\ inv[i].op = "generate_speech"
    /\ \E io \in io_outcomes(resp[i].content) :
          LET end == generate_speech_end(inv[i], resp[i], dirs, files, io)
          IN  /\ finish(i, [exc |-> end.exc, value |-> end.value])
              /\ files' = end.files
              /\ wrote' = [wrote EXCEPT ![i] = @ \cup end.touched]

\* Lines 190-227: list_voices from the end of its HTTP call to its end.
list_voices_return(i) ==
    /\ pc[i] = "closing"
    /\ inv[i].op = "list_voices"
    /\ finish(i, list_voices_end(resp[i]))
    /\ UNCHANGED <<wrote, files>>

\* Lines 244-268: check_status from the end of its HTTP call to its end.
check_status_return(i) ==
    /\ pc[i] = "closing"
    /\ inv[i].op = "check_status"
    /\ finish(i, check_status_end(resp[i]))
    /\ UNCHANGED <<wrote, files>>

----------------------------------------------------------------------------
\* The environment: the backend's answers and the filesystem at startup.

failure(kind) == [kind |-> kind, status |-> 0, content |-> <<>>]

http(status, content) == [kind |-> "response", status |-> status, content |-> content]

\* The exceptions httpx raises from a request: connection refused, a
\* timeout (connect or read), a connection broken while reading.
Failures == {failure("ConnectError"), failure("TimeoutException"), failure("ReadError")}

\* Answers to POST /v1/audio/speech: audio, or an error with its text.
SpeechAnswers ==
    {http(200, <<>>), http(200, <<77>>), http(200, <<77, 97>>),
     http(200, <<77, 97, 110>>), http(200, <<255, 0, 16, 131>>),
     http(201, <<1>>), http(302, <<>>), http(404, <<110, 111>>),
     http(500, <<>>)}

\* Answers to GET /v1/audio/voices.
VoicesAnswers ==
    {http(200, "[{\"name\": \"af_heart\"}]"), http(200, "{\"voices\": [\"af_heart\"]}"),
     http(200, "[]"), http(200, "null"), http(200, "42"),
     http(200, "<html>"), http(204, ""), http(302, ""), http(404, "Not Found"),
     http(503, "")}

\* What the awaited call of a tool can end with.
backend(op) ==
    IF op = "generate_speech" THEN SpeechAnswers \cup Failures
    ELSE VoicesAnswers \cup {[f EXCEPT !.content = ""] : f \in Failures}

\* The few answers the concurrent specification draws from.
backend_few(op) ==
    IF op = "generate_speech"
    THEN {http(200, <<1>>), http(200, <<2, 3>>), http(500, <<>>),
          failure("ConnectError"), failure("TimeoutException")}
    ELSE {http(200, "[]"), http(200, "<html>"), http(503, ""),
          [failure("ConnectError") EXCEPT !.content = ""],
          [failure("TimeoutException") EXCEPT !.content = ""]}

\* Arguments of generate_speech.
TEXT_HELLO == <<"H","e","l","l","o"," ","W","o","r","l","d","!"," ","1","2","3">>

TEXT_LONG ==
    <<"D","r","."," ","W","h","o"," ","s","a","i","d",":"," ","g","o","_","t","o"," ","1","0"," ","D","o","w","n","i","n","g"," ","S","t",".",","," ","n","o","w","!">>

TEXT_HI == <<"h","i">>

VOICE_BELLA == <<"a","f","_","b","e","l","l","a">>

VOICE_BLEND == <<"a","f","_","b","e","l","l","a","+","a","f","_","s","k","y">>

VOICE_WEIGHTED == <<"a","f","_","b","e","l","l","a","(","2",")","+","a","f","_","s","k","y","(","1",")">>

VOICE_DOTDOT == <<"a","f","/",".",".","/",".",".","/","x">>

MP3 == <<"m","p","3">>

WAV == <<"w","a","v">>

Texts == {<<>>, TEXT_HI, TEXT_HELLO, TEXT_LONG}

Voices == {VOICE_BELLA, VOICE_BLEND, VOICE_WEIGHTED, VOICE_DOTDOT}

Speeds == {4, 5, 10, 20, 21}

Formats == {MP3, WAV}

\* The filesystem at startup, after OUTPUT_DIR.mkdir(parents=True,
\* exist_ok=True) (line 31): the output directory exists, fresh or with what
\* earlier runs and the user left in it.
PRIOR_FILE == OUTPUT_DIR \o << <<"h","i","_","a","f","_","b","e","l","l","a",".","m","p","3">> >>

PRIOR_DIR == OUTPUT_DIR \o << <<"h","i","_","a","f">> >>

Startups ==
    {[dirs |-> {<<>>, OUTPUT_DIR}, files |-> <<>>],
     [dirs |-> {<<>>, OUTPUT_DIR, PRIOR_DIR},
      files |-> [p \in {PRIOR_FILE} |-> <<79, 76, 68>>]]}

----------------------------------------------------------------------------
\* Specifications.

Init ==
    /\ pc = [i \in Calls |-> "idle"]
    /\ inv = [i \in Calls |-> [op |-> "none"]]
    /\ sent = [i \in Calls |-> <<>>]
    /\ resp = [i \in Calls |-> failure("none")]
    /\ result = [i \in Calls |-> [exc |-> "none", value |-> <<>>]]
    /\ wrote = [i \in Calls |-> {}]
    /\ \E s \in Startups : dirs = s.dirs /\ files = s.files /\ files0 = s.files

\* Concurrent invocations, each tool with few arguments and answers.
Next ==
    \E i \in Calls :
        \/ \E save_to_file \in BOOLEAN :
              generate_speech(i, TEXT_HI, VOICE_BELLA, 10, MP3, save_to_file)
        \/ list_voices(i)
        \/ check_status(i)
        \/ \E r \in backend_few(inv[i].op) : respond(i, r)
        \/ cancel(i)
        \/ generate_speech_return(i)
        \/ list_voices_return(i)
        \/ check_status_return(i)

Spec == Init /\ [][Next]_vars

\* One invocation, over all the arguments and answers.
NextSingle ==
    \/ \E text \in Texts, voice \in Voices, speed \in Speeds,
          output_format \in Formats, save_to_file \in BOOLEAN :
          generate_speech(1, text, voice, speed, output_format, save_to_file)
    \/ list_voices(1)
    \/ check_status(1)
    \/ \E r \in backend(inv[1].op) : respond(1, r)
    \/ cancel(1)
    \/ generate_speech_return(1)
    \/ list_voices_return(1)
    \/ check_status_return(1)

SpecSingle == Init /\ [][NextSingle]_vars

----------------------------------------------------------------------------
\* Properties.

Finished(i) == pc[i] \in {"returned", "raised"}

Returned(i, op) == pc[i] = "returned" /\ inv[i].op = op

\* Whether sequence sub occurs in sequence s.
Contains(s, sub) ==
    \E k \in 1..(Len(s) - Len(sub) + 1) : SubSeq(s, k, k + Len(sub) - 1) = sub

\* C1: a generate_speech call whose speed lies outside [0.5, 2.0] is
\* rejected before any HTTP POST is issued: it issues no request, writes no
\* file and does not return success.
C1_SpeedOutOfRangeRejected ==
    \A i \in Calls :
        (inv[i].op = "generate_speech" /\ ~GenerateSpeechInput_speed_ok(inv[i].speed))
            => /\ sent[i] = <<>>
               /\ wrote[i] = {}
               /\ ~(pc[i] = "returned" /\ result[i].value.status = "success")

\* C2: check_status answers "online" exactly for a 2xx response, "offline"
\* exactly for a connection failure and "unknown" for everything else, and
\* always carries the configured base URL.
C2_CheckStatusClassifies ==
    \A i \in Calls :
        Returned(i, "check_status") =>
            LET v == result[i].value
                r == resp[i]
            IN  /\ v.service \in {"online", "offline", "unknown"}
                /\ v.service = "online"
                     <=> (r.kind = "response" /\ r.status \in 200..299)
                /\ v.service = "offline" <=> r.kind = "ConnectError"
                /\ v.base_url = KOKORO_BASE_URL

C2_TimeoutIsUnknown ==
    \E i \in Calls :
        /\ Returned(i, "check_status")
        /\ resp[i].kind = "TimeoutException"
        /\ result[i].value.service = "unknown"
        /\ result[i].value.base_url = KOKORO_BASE_URL

\* C3: list_voices never raises; for an HTTP 200 whose body parses it
\* returns the backend's catalog verbatim without a note, and for every
\* other outcome the 9-entry built-in catalog with the fallback note.
C3_ListVoicesVerbatimOrFallback ==
    \A i \in Calls :
        (inv[i].op = "list_voices" /\ Finished(i)
           /\ resp[i].kind # "CancelledError") =>
            LET v == result[i].value
                r == resp[i]
            IN  /\ pc[i] = "returned"
                /\ v.status = "success"
                /\ IF r.kind = "response" /\ r.status = 200
                        /\ response_json(r.content).exc = "none"
                   THEN /\ v.voices = response_json(r.content).value
                        /\ "note" \notin DOMAIN v
                   ELSE /\ v.voices = default_voices
                        /\ Len(v.voices.items) = 9
                        /\ "note" \in DOMAIN v

\* C4: a generate_speech call whose request times out returns an error
\* dict whose message holds the configured timeout, raises nothing and
\* writes no file, in persist mode and in inline mode.
C4_TimeoutIsErrorResult ==
    \A i \in Calls :
        (inv[i].op = "generate_speech" /\ Finished(i)
           /\ resp[i].kind = "TimeoutException") =>
            /\ pc[i] = "returned"
            /\ result[i].value.status = "error"
            /\ Contains(result[i].value.error, Decimal(TIMEOUT))
            /\ wrote[i] = {}
            /\ files = files0

C4_TimedOutInPersistMode ==
    \E i \in Calls :
        /\ Returned(i, "generate_speech")
        /\ inv[i].save_to_file
        /\ resp[i].kind = "TimeoutException"
        /\ result[i].value.status = "error"

\* C5: whatever the backend call, the parsing of its response or the file
\* write fails with, each tool ends by returning a dict tagged "success" or
\* "error"; no such failure leaves the tool as an exception.
C5_EveryFailureIsATaggedResult ==
    \A i \in Calls :
        (Finished(i) /\ resp[i].kind # "CancelledError") =>
            /\ pc[i] = "returned"
            /\ result[i].value.status \in {"success", "error"}

C5_FileWriteFailureCaught ==
    \E i \in Calls :
        /\ Returned(i, "generate_speech")
        /\ resp[i].kind = "response"
        /\ is_success(resp[i].status)
        /\ result[i].value.status = "error"
        /\ result[i].value.error = exc_str("OSError")

\* The standard base64 alphabet, and the decoding of base64 text.
B64_ALPHABET ==
    <<"A","B","C","D","E","F","G","H","I","J","K","L","M","N","O","P",
      "Q","R","S","T","U","V","W","X","Y","Z","a","b","c","d","e","f",
      "g","h","i","j","k","l","m","n","o","p","q","r","s","t","u","v",
      "w","x","y","z","0","1","2","3","4","5","6","7","8","9","+","/">>

B64Value(c) == (CHOOSE k \in 1..64 : B64_ALPHABET[k] = c) - 1

\* Whether s is base64 text: digits of the alphabet in groups of four, the
\* last group padded with at most two "=".
IsBase64(s) ==
    /\ Len(s) % 4 = 0
    /\ \A k \in 1..Len(s) :
          \/ \E d \in 1..64 : B64_ALPHABET[d] = s[k]
          \/ s[k] = "=" /\ k > Len(s) - 2 /\ (k = Len(s) \/ s[Len(s)] = "=")

RECURSIVE b64decode(_)
b64decode(s) ==
    IF s = <<>> THEN <<>>
    ELSE LET a == B64Value(s[1])
             b == B64Value(s[2])
             rest == SubSeq(s, 5, Len(s))
         IN  IF s[3] = "="
             THEN <<a * 4 + b \div 16>>
             ELSE IF s[4] = "="
             THEN <<a * 4 + b \div 16, (b % 16) * 16 + B64Value(s[3]) \div 4>>
             ELSE <<a * 4 + b \div 16, (b % 16) * 16 + B64Value(s[3]) \div 4,
                    (B64Value(s[3]) % 4) * 64 + B64Value(s[4])>> \o b64decode(rest)

\* C6: with save_to_file false the call leaves the filesystem as it was,
\* and on success audio_data base64-decodes to exactly the bytes the backend
\* sent and size_bytes is their number.
C6_InlineLeavesFilesAndRoundTrips ==
    \A i \in Calls :
        (inv[i].op = "generate_speech" /\ ~inv[i].save_to_file) =>
            /\ wrote[i] = {}
            /\ files = files0
            /\ (pc[i] = "returned" /\ result[i].value.status = "success") =>
                   /\ IsBase64(result[i].value.audio_data)
                   /\ b64decode(result[i].value.audio_data) = resp[i].content
                   /\ result[i].value.size_bytes = Len(resp[i].content)

C6_InlineAudioReturned ==
    \E i \in Calls :
        /\ Returned(i, "generate_speech")
        /\ ~inv[i].save_to_file
        /\ result[i].value.status = "success"
        /\ resp[i].content = <<255, 0, 16, 131>>
        /\ result[i].value.audio_data = <<"/","w","A","Q","g","w","=","=">>

\* C7: every invocation issues exactly one HTTP request, the one of its
\* tool: a timeout, a transport error or a non-2xx response is not followed
\* by a second request, however the invocations interleave.
C7_ExactlyOneRequest ==
    \A i \in Calls :
        IF pc[i] = "idle" THEN sent[i] = <<>>
        ELSE /\ Len(sent[i]) = 1
             /\ sent[i][1] = IF inv[i].op = "generate_speech"
                              THEN speech_request(inv[i])
                              ELSE voices_request

C7_TwoFailedCallsReturned ==
    \E i, j \in Calls :
        /\ i # j
        /\ Returned(i, "generate_speech")
        /\ resp[i].kind = "TimeoutException"
        /\ Returned(j, "list_voices")
        /\ resp[j].kind = "response" /\ resp[j].status = 503
        /\ Len(sent[i]) = 1 /\ Len(sent[j]) = 1

\* C8: in persist mode the one file a call writes lies under the output
\* directory, whatever the text, voice and output_format, and the call
\* creates or modifies no other file.  (Stated for the calls whose speed is
\* in range, so that it does not rest on C1.)
C8_WritesStayUnderOutputDir ==
    \A i \in Calls :
        (inv[i].op = "generate_speech"
           /\ GenerateSpeechInput_speed_ok(inv[i].speed)) =>
            /\ Cardinality(wrote[i]) <= 1
            /\ \A p \in wrote[i] : is_under(p, OUTPUT_DIR)
            /\ \A p \in (DOMAIN files) \ wrote[i] :
                  \/ \E j \in Calls \ {i} : p \in wrote[j]
                  \/ p \in DOMAIN files0 /\ files[p] = files0[p]

\* The bodies that persist-mode calls received with a 2xx response.
PersistBodies ==
    {resp[i].content :
        i \in {j \in Calls : /\ inv[j].op = "generate_speech"
                              /\ inv[j].save_to_file
                              /\ pc[j] \in {"closing", "returned"}
                              /\ resp[j].kind = "response"
                              /\ is_success(resp[j].status)}}

\* C9: whatever the interleaving, and whatever fails or is cancelled during
\* the write, a file holds its previous content or the complete body of one
\* invocation, never a part of one.
C9_FileNeverPartial ==
    \A p \in DOMAIN files :
        \/ p \in DOMAIN files0 /\ files[p] = files0[p]
        \/ files[p] \in PersistBodies

\* The filename as C10 words it: walk the first n characters of text, a
\* space giving "_", an alphanumeric or "_" giving itself, anything else
\* nothing.
RECURSIVE C10_Stem(_, _)
C10_Stem(text, n) ==
    IF n = 0 \/ text = <<>> THEN <<>>
    ELSE LET c == Head(text)
             rest == C10_Stem(Tail(text), n - 1)
         IN  IF c = " " THEN <<"_">> \o rest
             ELSE IF isalnum(c) \/ c = "_" THEN <<c>> \o rest
             ELSE rest

C10_Voice(voice) ==
    [k \in 1..Len(voice) |-> IF voice[k] = "+" THEN "_" ELSE voice[k]]

\* C10: the persist-mode filename is the first 30 characters of text
\* reduced to alphanumerics and "_" (spaces as "_"), then "_", the voice
\* with "+" as "_", ".", and the format; 'Hello World! 123' with voice
\* 'af_bella+af_sky' and 'mp3' gives 'Hello_World_123_af_bella_af_sky.mp3'.
C10_FilenameDerivation ==
    \A i \in Calls :
        (Returned(i, "generate_speech") /\ inv[i].save_to_file
           /\ result[i].value.status = "success") =>
            LET a == inv[i]
            IN  /\ result[i].value.file_path =
                       path_str(OUTPUT_DIR) \o <<"/">> \o C10_Stem(a.text, 30)
                           \o <<"_">> \o C10_Voice(a.voice) \o <<".">>
                           \o a.output_format
                /\ (a.text = TEXT_HELLO /\ a.voice = VOICE_BLEND
                       /\ a.output_format = MP3) =>
                       result[i].value.file_path = path_str(OUTPUT_DIR) \o <<"/">> \o
                           <<"H","e","l","l","o","_","W","o","r","l","d","_","1","2","3","_","a","f","_","b","e","l","l","a","_","a","f","_","s","k","y",".","m","p","3">>

C10_ExampleSaved ==
    \E i \in Calls :
        /\ Returned(i, "generate_speech")
        /\ inv[i].save_to_file
        /\ inv[i].text = TEXT_HELLO /\ inv[i].voice = VOICE_BLEND
        /\ inv[i].output_format = MP3
        /\ result[i].value.status = "success"
        /\ OUTPUT_DIR \o << <<"H","e","l","l","o","_","W","o","r","l","d","_","1","2","3","_","a","f","_","b","e","l","l","a","_","a","f","_","s","k","y",".","m","p","3">> >>
               \in DOMAIN files

====
